---- MODULE Spec2Model ----
(***************************************************************************)
(* Geofence monitoring core of MobileNoteApp.                              *)
(*                                                                         *)
(* GeofencingService (services/GeofencingService.ts) owns isActive,        *)
(* checkInterval and lastNotifiedNotes; LocationService owns watchId and   *)
(* isMonitoring.  Every async method is cut at its awaits: one action per  *)
(* synchronous stretch of code between two suspension points.  The         *)
(* platform (expo-location, timers, expo-notifications, AsyncStorage) is   *)
(* the environment: its answers are drawn with \E.                         *)
(*                                                                         *)
(* Beside the monitor stand the note editor (NotesService.createNote and    *)
(* updateNote behind the LocationPicker) and the reminder scheduler        *)
(* (NotificationService.scheduleNotification, formatNotificationTime),     *)
(* each with a specification of its own.                                   *)
(*                                                                         *)
(* Lengths are in decimetres so that a distance can lie strictly between   *)
(* two whole metres; a radius is stored in metres, as in the code.         *)
(***************************************************************************)
EXTENDS Integers, Sequences, FiniteSets, TLC

\* ------------------------------------------------------------ bounds
MaxStarts == 2      \* start() calls that may be in flight together
MaxStops  == 1      \* stop() calls that may be in flight together
MaxPasses == 2      \* evaluation passes that may be in flight together
MaxTimers == 2      \* interval handles the platform can hand out
MaxSubs   == 2      \* position watches the platform can hand out
MaxEmit   == 2      \* proximity notifications attempted before the run is cut
MaxCalls  == 2      \* scheduleNotificationAsync calls before the run is cut
MaxNow    == 2      \* the clock's last millisecond
MaxInits  == 2      \* initialize() calls that may be in flight together
MaxOps    == 2      \* createNote/deleteNote calls that may be in flight together

StartIds == 1..MaxStarts
StopIds  == 1..MaxStops
PassIds  == 1..MaxPasses
TimerIds == 1..MaxTimers
SubIds   == 1..MaxSubs
InitIds  == 1..MaxInits
OpIds    == 1..MaxOps

\* ------------------------------------------------------------ data
NoHandle == 0                       \* null for checkInterval / watchId

OwnerIds == {"A", "B"}              \* note ids
NoteOrder == <<"A", "B">>           \* getAllNotes order (updatedAt descending)

\* A note's location: centre (dm on a line) and radius (m).
Center(id) == IF id = "A" THEN 0 ELSE 60
Radius(id) == 10

\* Device positions (dm): 0 inside both; 104 just outside A (10.4 m, which
\* rounds to the radius), inside B; 1000 outside both.
Positions == {0, 104, 1000}

\* Note store content per id: "loc" stored with a location, "noloc" stored
\* without one, "deleted" removed.
NoteStates == {"loc", "noloc", "deleted"}

Abs(x) == IF x < 0 THEN -x ELSE x

\* LocationService.calculateDistance, on a line, in decimetres.
calculateDistance(p, q) == Abs(p - q)

\* Math.round of a distance given in decimetres, in metres.
Round(d) == (d + 5) \div 10

RECURSIVE checkGeofencesAfterRound(_, _)
\* checkGeofences comparing the rounded distance with the radius.
checkGeofencesAfterRound(loc, noteLocations) ==
  IF noteLocations = <<>> THEN <<>>
  ELSE LET n == Head(noteLocations)
           d == calculateDistance(loc, Center(n))
           rest == checkGeofencesAfterRound(loc, Tail(noteLocations))
       IN IF Round(d) <= Radius(n)
          THEN <<[noteId |-> n, distance |-> Round(d)]>> \o rest
          ELSE rest

RECURSIVE checkGeofences(_, _)
\* LocationService.checkGeofences: the notes within radius, in input order,
\* each with its rounded distance.
checkGeofences(loc, noteLocations) ==
  IF noteLocations = <<>> THEN <<>>
  ELSE LET n == Head(noteLocations)
           d == calculateDistance(loc, Center(n))
           rest == checkGeofences(loc, Tail(noteLocations))
       IN IF d <= Radius(n) * 10
          THEN <<[noteId |-> n, distance |-> Round(d)]>> \o rest
          ELSE rest

VARIABLES
  isActive,            \* GeofencingService.isActive
  checkInterval,       \* GeofencingService.checkInterval (NoHandle = null)
  lastNotifiedNotes,   \* GeofencingService.lastNotifiedNotes (DedupSet)
  watchId,             \* LocationService.watchId (NoHandle = null)
  isMonitoring,        \* LocationService.isMonitoring
  liveSubs,            \* platform: position watches that still deliver
  liveTimers,          \* platform: intervals that still tick
  devicePos,           \* where the device is
  noteState,           \* note store: OwnerIds -> NoteStates
  startPc,             \* StartIds -> position of each startGeofencing call
  stopPc,              \* StopIds -> position of each stopGeofencing call
  pass,                \* PassIds -> each evaluation pass in flight
  attempts,            \* history: calls of scheduleLocationNotification per id
  lastRet,             \* history: the last start()/stop() that returned
  delivered,           \* history: notifications the service accepted, per id
  entries,             \* history: entry events per id
  prevInside,          \* history: ids the last evaluating pass found in range
  lastPass,            \* history: how the last finished pass ended
  orphaned,            \* history: ids removed from the targets while in DedupSet
  locationAlert,       \* history: the dialog LocationService raised in the last pass
  now,                 \* the clock (ms)
  noteRadius,          \* note store: the radius (m) of each stored location
  noteRet,             \* the last createNote/updateNote: its title, how it ended
  isInitialized,       \* NotificationService.isInitialized
  sched,               \* the scheduleNotification call in flight or last returned
  triggers,            \* seconds handed to scheduleNotificationAsync, in order
  fmtDate,             \* formatNotificationTime: its argument (ms)
  fmtText,             \* formatNotificationTime: its result
  chkArgs,             \* checkGeofences: its arguments
  chkOut,              \* checkGeofences: its result
  initPc,              \* InitIds -> position of each initialize() call
  listeners,           \* notification listeners registered with the platform
  items,               \* AsyncStorage: ids that have a note item
  idList,              \* AsyncStorage: the ids under NOTES_KEY
  noteOps,             \* OpIds -> each createNote/deleteNote call in flight
  promised             \* history: a start() returned true, nothing called since

monitorVars == <<isActive, checkInterval, lastNotifiedNotes>>
locationVars == <<watchId, isMonitoring>>
platformVars == <<liveSubs, liveTimers>>
callVars == <<startPc, stopPc>>
\* The histories below are kept only by the specifications in which passes
\* run one after another; elsewhere they stay as Init leaves them.
seqHistory == <<delivered, entries, prevInside, lastPass, orphaned>>
\* The note editor, the reminder scheduler and the clock.
ioVars == <<chkArgs, chkOut>>
storageVars == <<items, idList, noteOps>>
editorVars == <<now, noteRadius, noteRet, isInitialized, sched, triggers,
                fmtDate, fmtText, ioVars, initPc, listeners, storageVars>>
\* With the history that only the specification of restarts keeps.
appVars == <<editorVars, promised>>
\* What the specifications of the monitor running concurrently leave alone.
restVars == <<seqHistory, appVars, locationAlert>>
vars == <<isActive, checkInterval, lastNotifiedNotes, watchId, isMonitoring,
          liveSubs, liveTimers, devicePos, noteState, startPc, stopPc, pass,
          attempts, lastRet, delivered, entries, prevInside, lastPass,
          orphaned, locationAlert, now, noteRadius, noteRet, isInitialized,
          sched, triggers, fmtDate, fmtText, chkArgs, chkOut, initPc,
          listeners, items, idList, noteOps, promised>>

IdlePass == [pc |-> "idle", loc |-> 0, trig |-> <<>>, idx |-> 0]

NoRet == [op |-> "none", res |-> FALSE, early |-> FALSE]

\* No note is stored with a radius here.
NoRadius == 0

\* No initialize() call is in this slot and none has returned from it.
IdleInit == [pc |-> "idle", caller |-> "none", ret |-> "none"]

\* No createNote or updateNote call has been made.
NoNoteRet == [op |-> "none", titleLen |-> 1, ret |-> "none", code |-> "",
              userMessage |-> ""]

\* No createNote or deleteNote call is in this slot.
IdleOp == [pc |-> "idle", kind |-> "none", id |-> "", read |-> {}]

\* No scheduleNotification call has been made.
NoSched == [pc |-> "idle", title |-> "", date |-> 0, accepted |-> 0,
            ret |-> "none", alerted |-> FALSE]

\* The note editor, the reminder scheduler and the clock before any call.
InitApp ==
  /\ locationAlert = "none"
  /\ now = 0
  /\ noteRadius = [id \in OwnerIds |->
                     IF noteState[id] = "loc" THEN Radius(id) ELSE NoRadius]
  /\ noteRet = NoNoteRet
  /\ isInitialized = FALSE
  /\ sched = NoSched
  /\ triggers = <<>>
  /\ fmtDate = 0
  /\ fmtText = ""
  /\ chkArgs = [loc |-> 0, targets |-> <<>>]
  /\ chkOut = <<>>
  /\ initPc = [i \in InitIds |-> IdleInit]
  /\ listeners = 0
  /\ items = {id \in OwnerIds : noteState[id] # "deleted"}
  /\ idList = {id \in OwnerIds : noteState[id] # "deleted"}
  /\ noteOps = [o \in OpIds |-> IdleOp]
  /\ promised = FALSE

Init ==
  /\ isActive = FALSE
  /\ checkInterval = NoHandle
  /\ lastNotifiedNotes = {}
  /\ watchId = NoHandle
  /\ isMonitoring = FALSE
  /\ liveSubs = {}
  /\ liveTimers = {}
  /\ devicePos \in Positions
  /\ noteState \in [OwnerIds -> {"loc", "noloc"}]
  /\ startPc = [c \in StartIds |-> "idle"]
  /\ stopPc = [d \in StopIds |-> "idle"]
  /\ pass = [p \in PassIds |-> IdlePass]
  /\ attempts = [id \in OwnerIds |-> 0]
  /\ delivered = [id \in OwnerIds |-> 0]
  /\ entries = [id \in OwnerIds |-> 0]
  /\ prevInside = {}
  /\ lastRet = NoRet
  /\ lastPass = "none"
  /\ orphaned = {}
  /\ InitApp

Min(S) == CHOOSE x \in S : \A y \in S : x <= y

\* An await of a promise that settles without the platform (start() on
\* startLocationMonitoring's result, stop() on stopLocationMonitoring, the
\* loop on a handleGeofenceTriggered that returned at its has test) resumes
\* as a microtask: before any platform answer, update or tick is delivered.
\* Code already running may still call start() or stop() before it.
MicrotaskPending ==
  \/ \E c \in StartIds : startPc[c] = "started"
  \/ \E d \in StopIds : stopPc[d] = "teardown"
  \/ \E p \in PassIds : pass[p].pc = "yield"

\* The platform delivers an answer, an update or a tick.
PlatformTurn == ~MicrotaskPending

\* ------------------------------------------------------------ start()
\* GeofencingService.startGeofencing, LocationService.startLocationMonitoring

IdleStarts == {c \in StartIds : startPc[c] = "idle"}

StartReturns(c, res, early) ==
  /\ startPc' = [startPc EXCEPT ![c] = "idle"]
  /\ lastRet' = [op |-> "start", res |-> res, early |-> early]

\* start() without its isActive test.
StartCallUnguarded(c) ==
  /\ IdleStarts # {} /\ c = Min(IdleStarts)
  /\ startPc' = [startPc EXCEPT ![c] = "enabled"]
  /\ UNCHANGED <<monitorVars, locationVars, platformVars, devicePos, noteState,
                 stopPc, pass, attempts, lastRet>>

\* start() is called: the isActive test, then the await of isLocationEnabled.
StartCall(c) ==
  /\ IdleStarts # {} /\ c = Min(IdleStarts)
  /\ IF isActive
     THEN StartReturns(c, TRUE, TRUE)
     ELSE startPc' = [startPc EXCEPT ![c] = "enabled"] /\ UNCHANGED lastRet
  /\ UNCHANGED <<monitorVars, locationVars, platformVars, devicePos, noteState,
                 stopPc, pass, attempts>>

\* isLocationEnabled() has answered (a throw inside it reads as false); on
\* true, startLocationMonitoring runs up to its first await.
StartEnabled(c, enabled) ==
  /\ PlatformTurn
  /\ startPc[c] = "enabled"
  /\ IF ~enabled
     THEN StartReturns(c, FALSE, FALSE)
     ELSE /\ startPc' = [startPc EXCEPT ![c] =
                          IF isMonitoring THEN "started" ELSE "perm"]
          /\ UNCHANGED lastRet
  /\ UNCHANGED <<monitorVars, locationVars, platformVars, devicePos, noteState,
                 stopPc, pass, attempts>>

\* requestLocationPermission() has answered; when granted,
\* Location.watchPositionAsync is called and awaited.
StartPermission(c, granted) ==
  /\ PlatformTurn
  /\ startPc[c] = "perm"
  /\ IF granted
     THEN startPc' = [startPc EXCEPT ![c] = "watch"] /\ UNCHANGED lastRet
     ELSE StartReturns(c, FALSE, FALSE)
  /\ UNCHANGED <<monitorVars, locationVars, platformVars, devicePos, noteState,
                 stopPc, pass, attempts>>

FreeSubs == SubIds \ (liveSubs \cup {watchId})

\* watchPositionAsync has answered, with isMonitoring set before the await.
StartWatchFlagFirst(c, ok) ==
  /\ PlatformTurn
  /\ startPc[c] = "watch"
  /\ isMonitoring' = TRUE
  /\ IF ok
     THEN /\ FreeSubs # {}
          /\ liveSubs' = liveSubs \cup {Min(FreeSubs)}
          /\ watchId' = Min(FreeSubs)
          /\ startPc' = [startPc EXCEPT ![c] = "started"]
          /\ UNCHANGED lastRet
     ELSE /\ StartReturns(c, FALSE, FALSE)
          /\ UNCHANGED <<liveSubs, watchId>>
  /\ UNCHANGED <<monitorVars, liveTimers, devicePos, noteState,
                 stopPc, pass, attempts>>

\* watchPositionAsync has answered: a new watch is recorded in watchId and
\* isMonitoring is set, or it threw and start() returns false.
StartWatch(c, ok) ==
  /\ PlatformTurn
  /\ startPc[c] = "watch"
  /\ IF ok
     THEN /\ FreeSubs # {}
          /\ liveSubs' = liveSubs \cup {Min(FreeSubs)}
          /\ watchId' = Min(FreeSubs)
          /\ isMonitoring' = TRUE
          /\ startPc' = [startPc EXCEPT ![c] = "started"]
          /\ UNCHANGED lastRet
     ELSE /\ StartReturns(c, FALSE, FALSE)
          /\ UNCHANGED <<liveSubs, watchId, isMonitoring>>
  /\ UNCHANGED <<monitorVars, liveTimers, devicePos, noteState,
                 stopPc, pass, attempts>>

FreeTimers == TimerIds \ liveTimers

\* startLocationMonitoring resolved true: isActive is set and the interval
\* is created and stored in checkInterval.
StartStarted(c) ==
  /\ startPc[c] = "started"
  /\ FreeTimers # {}
  /\ isActive' = TRUE
  /\ liveTimers' = liveTimers \cup {Min(FreeTimers)}
  /\ checkInterval' = Min(FreeTimers)
  /\ StartReturns(c, TRUE, FALSE)
  /\ UNCHANGED <<lastNotifiedNotes, locationVars, liveSubs, devicePos,
                 noteState, stopPc, pass, attempts>>

StartStep(c) ==
  \/ \E enabled \in BOOLEAN : StartEnabled(c, enabled)
  \/ \E granted \in BOOLEAN : StartPermission(c, granted)
  \/ \E ok \in BOOLEAN : StartWatch(c, ok)
  \/ StartStarted(c)

\* ------------------------------------------------------------ stop()
\* GeofencingService.stopGeofencing, LocationService.stopLocationMonitoring

IdleStops == {d \in StopIds : stopPc[d] = "idle"}

\* LocationService.stopLocationMonitoring, which has no await and so runs
\* whole when stop() calls it.  If watchId.remove() throws, the catch skips
\* both assignments; whether the platform dropped the watch before throwing
\* is not known to the code (removed).
stopLocationMonitoring(throws, removed) ==
  IF watchId # NoHandle
  THEN IF throws
       THEN /\ liveSubs' = IF removed THEN liveSubs \ {watchId} ELSE liveSubs
            /\ UNCHANGED <<watchId, isMonitoring>>
       ELSE /\ liveSubs' = liveSubs \ {watchId}
            /\ watchId' = NoHandle
            /\ isMonitoring' = FALSE
  ELSE /\ isMonitoring' = FALSE
       /\ UNCHANGED <<watchId, liveSubs>>

\* stop() is called: stopLocationMonitoring runs, then stop() awaits it.
StopCall(d, throws, removed) ==
  /\ IdleStops # {} /\ d = Min(IdleStops)
  /\ (watchId = NoHandle) => (~throws /\ ~removed)
  /\ ~throws => ~removed
  /\ stopLocationMonitoring(throws, removed)
  /\ stopPc' = [stopPc EXCEPT ![d] = "teardown"]
  /\ UNCHANGED <<monitorVars, liveTimers, devicePos, noteState, startPc, pass,
                 attempts, lastRet>>

\* After the await: the interval is cleared, isActive reset, DedupSet cleared.
StopTeardown(d) ==
  /\ stopPc[d] = "teardown"
  /\ IF checkInterval # NoHandle
     THEN /\ liveTimers' = liveTimers \ {checkInterval}
          /\ checkInterval' = NoHandle
     ELSE UNCHANGED <<liveTimers, checkInterval>>
  /\ isActive' = FALSE
  /\ lastNotifiedNotes' = {}
  /\ stopPc' = [stopPc EXCEPT ![d] = "idle"]
  /\ lastRet' = [op |-> "stop", res |-> TRUE, early |-> FALSE]
  /\ UNCHANGED <<locationVars, liveSubs, devicePos, noteState, startPc, pass,
                 attempts>>

\* ------------------------------------------------------------ evaluation pass
\* handleLocationUpdate, checkAllGeofences, checkGeofencesForLocation,
\* handleGeofenceTriggered

IdlePasses == {p \in PassIds : pass[p].pc = "idle"}

\* The run is cut once a counter of the history reaches MaxEmit.
WithinBudget ==
  \A id \in OwnerIds : attempts[id] < MaxEmit /\ entries[id] < MaxEmit

\* NotesService.getAllNotes as the pass sees it, filtered to the notes that
\* carry a location (a failed read surfaces as the empty list).
notesWithLocations(readOk) ==
  IF readOk THEN SelectSeq(NoteOrder, LAMBDA id : noteState[id] = "loc") ELSE <<>>

TriggeredIds(trig) == {trig[i].noteId : i \in 1..Len(trig)}

\* The position watch delivers the device position: handleLocationUpdate
\* calls checkGeofencesForLocation, which suspends on getAllNotes.
PushUpdate(w, p) ==
  /\ PlatformTurn
  /\ w \in liveSubs
  /\ WithinBudget
  /\ IdlePasses # {} /\ p = Min(IdlePasses)
  /\ pass' = [pass EXCEPT ![p] = [pc |-> "notes", loc |-> devicePos,
                                  trig |-> <<>>, idx |-> 0]]
  /\ UNCHANGED <<monitorVars, locationVars, platformVars, devicePos, noteState,
                 callVars, attempts, lastRet>>

\* The interval fires: checkAllGeofences calls getCurrentLocation, which
\* suspends on requestLocationPermission.
TimerTick(t, p) ==
  /\ PlatformTurn
  /\ t \in liveTimers
  /\ WithinBudget
  /\ IdlePasses # {} /\ p = Min(IdlePasses)
  /\ pass' = [pass EXCEPT ![p] = [pc |-> "perm", loc |-> 0,
                                  trig |-> <<>>, idx |-> 0]]
  /\ UNCHANGED <<monitorVars, locationVars, platformVars, devicePos, noteState,
                 callVars, attempts, lastRet>>

\* getCurrentLocation: permission answered.  Not granted: null, and
\* checkAllGeofences returns.  Granted: the one-shot fix is awaited.
PollPermission(p, granted) ==
  /\ PlatformTurn
  /\ pass[p].pc = "perm"
  /\ pass' = [pass EXCEPT ![p] = IF granted THEN [@ EXCEPT !.pc = "fix"]
                                            ELSE IdlePass]
  /\ UNCHANGED <<monitorVars, locationVars, platformVars, devicePos, noteState,
                 callVars, attempts, lastRet>>

\* The fix answered, and a failed fix is taken for "in range of nothing".
PollFixClears(p, ok) ==
  /\ PlatformTurn
  /\ pass[p].pc = "fix"
  /\ pass' = [pass EXCEPT ![p] = IF ok THEN [@ EXCEPT !.pc = "notes",
                                                      !.loc = devicePos]
                                       ELSE IdlePass]
  /\ lastNotifiedNotes' = IF ok THEN lastNotifiedNotes ELSE {}
  /\ UNCHANGED <<isActive, checkInterval, locationVars, platformVars, devicePos,
                 noteState, callVars, attempts, lastRet>>

\* The fix answered, and checkAllGeofences returns whatever it was.
PollFixGivesUp(p, ok) ==
  /\ PlatformTurn
  /\ pass[p].pc = "fix"
  /\ pass' = [pass EXCEPT ![p] = IdlePass]
  /\ UNCHANGED <<monitorVars, locationVars, platformVars, devicePos, noteState,
                 callVars, attempts, lastRet>>

\* getCurrentLocation: the fix answered.  A throw is caught and null is
\* returned; otherwise the pass goes on with the position of the fix.
PollFix(p, ok) ==
  /\ PlatformTurn
  /\ pass[p].pc = "fix"
  /\ pass' = [pass EXCEPT ![p] = IF ok THEN [@ EXCEPT !.pc = "notes",
                                                      !.loc = devicePos]
                                       ELSE IdlePass]
  /\ UNCHANGED <<monitorVars, locationVars, platformVars, devicePos, noteState,
                 callVars, attempts, lastRet>>

\* The loop without the lastNotifiedNotes.has test of handleGeofenceTriggered.
AdvanceNoDedup(p, trig, i) ==
  IF i > Len(trig)
  THEN /\ lastNotifiedNotes' = lastNotifiedNotes \cap TriggeredIds(trig)
       /\ pass' = [pass EXCEPT ![p] = IdlePass]
       /\ UNCHANGED attempts
  ELSE /\ lastNotifiedNotes' = lastNotifiedNotes \cup {trig[i].noteId}
       /\ attempts' = [attempts EXCEPT ![trig[i].noteId] = @ + 1]
       /\ pass' = [pass EXCEPT ![p] = [@ EXCEPT !.pc = "notify", !.trig = trig,
                                                !.idx = i]]

\* The loop without the removal of the ids that did not trigger.
AdvanceNoCleanup(p, trig, i) ==
  IF i > Len(trig)
  THEN /\ pass' = [pass EXCEPT ![p] = IdlePass]
       /\ UNCHANGED <<lastNotifiedNotes, attempts>>
  ELSE IF trig[i].noteId \in lastNotifiedNotes
  THEN /\ pass' = [pass EXCEPT ![p] = [@ EXCEPT !.pc = "yield", !.trig = trig,
                                                !.idx = i]]
       /\ UNCHANGED <<lastNotifiedNotes, attempts>>
  ELSE /\ lastNotifiedNotes' = lastNotifiedNotes \cup {trig[i].noteId}
       /\ attempts' = [attempts EXCEPT ![trig[i].noteId] = @ + 1]
       /\ pass' = [pass EXCEPT ![p] = [@ EXCEPT !.pc = "notify", !.trig = trig,
                                                !.idx = i]]

\* checkGeofencesForLocation from triggered note number i on: the synchronous
\* part of handleGeofenceTriggered for that note, or, past the last one, the
\* removal of the ids that did not trigger.
Advance(p, trig, i) ==
  IF i > Len(trig)
  THEN /\ lastNotifiedNotes' = lastNotifiedNotes \cap TriggeredIds(trig)
       /\ pass' = [pass EXCEPT ![p] = IdlePass]
       /\ UNCHANGED attempts
  ELSE IF trig[i].noteId \in lastNotifiedNotes
  THEN /\ pass' = [pass EXCEPT ![p] = [@ EXCEPT !.pc = "yield", !.trig = trig,
                                                !.idx = i]]
       /\ UNCHANGED <<lastNotifiedNotes, attempts>>
  ELSE /\ lastNotifiedNotes' = lastNotifiedNotes \cup {trig[i].noteId}
       /\ attempts' = [attempts EXCEPT ![trig[i].noteId] = @ + 1]
       /\ pass' = [pass EXCEPT ![p] = [@ EXCEPT !.pc = "notify", !.trig = trig,
                                                !.idx = i]]

\* getAllNotes has answered, and an empty list of targets is taken for
\* "in range of nothing".
PassNotesClearsOnEmpty(p, readOk) ==
  /\ PlatformTurn
  /\ pass[p].pc = "notes"
  /\ LET targets == notesWithLocations(readOk)
     IN IF targets = <<>>
        THEN /\ pass' = [pass EXCEPT ![p] = IdlePass]
             /\ lastNotifiedNotes' = {}
             /\ UNCHANGED attempts
        ELSE Advance(p, checkGeofences(pass[p].loc, targets), 1)
  /\ UNCHANGED <<isActive, checkInterval, locationVars, platformVars, devicePos,
                 noteState, callVars, lastRet>>

\* getAllNotes has answered: the targets are listed, checkGeofences run and
\* the loop over the triggered notes entered.
PassNotes(p, readOk) ==
  /\ PlatformTurn
  /\ pass[p].pc = "notes"
  /\ LET targets == notesWithLocations(readOk)
     IN IF targets = <<>>
        THEN /\ pass' = [pass EXCEPT ![p] = IdlePass]
             /\ UNCHANGED <<lastNotifiedNotes, attempts>>
        ELSE Advance(p, checkGeofences(pass[p].loc, targets), 1)
  /\ UNCHANGED <<isActive, checkInterval, locationVars, platformVars, devicePos,
                 noteState, callVars, lastRet>>

\* handleGeofenceTriggered returned at once (id already in DedupSet) and the
\* loop's await has resumed.
PassYield(p) ==
  /\ pass[p].pc = "yield"
  /\ Advance(p, pass[p].trig, pass[p].idx + 1)
  /\ UNCHANGED <<isActive, checkInterval, locationVars, platformVars, devicePos,
                 noteState, callVars, lastRet>>

\* scheduleLocationNotification has answered, and a null ends the pass.
PassNotifiedAborts(p, ok) ==
  /\ PlatformTurn
  /\ pass[p].pc = "notify"
  /\ IF ok
     THEN Advance(p, pass[p].trig, pass[p].idx + 1)
     ELSE /\ pass' = [pass EXCEPT ![p] = IdlePass]
          /\ UNCHANGED <<lastNotifiedNotes, attempts>>
  /\ UNCHANGED <<isActive, checkInterval, locationVars, platformVars, devicePos,
                 noteState, callVars, lastRet>>

\* scheduleLocationNotification has answered: an id (ok) or, after a caught
\* throw, null.
PassNotified(p, ok) ==
  /\ PlatformTurn
  /\ pass[p].pc = "notify"
  /\ Advance(p, pass[p].trig, pass[p].idx + 1)
  /\ UNCHANGED <<isActive, checkInterval, locationVars, platformVars, devicePos,
                 noteState, callVars, lastRet>>

PassStep(p) ==
  \/ \E granted \in BOOLEAN : PollPermission(p, granted)
  \/ \E ok \in BOOLEAN : PollFix(p, ok)
  \/ \E readOk \in BOOLEAN : PassNotes(p, readOk)
  \/ PassYield(p)
  \/ \E ok \in BOOLEAN : PassNotified(p, ok)

\* ------------------------------------------------------------ environment

\* The device moves.
Move(q) ==
  /\ q \in Positions \ {devicePos}
  /\ devicePos' = q
  /\ UNCHANGED <<monitorVars, locationVars, platformVars, noteState, callVars,
                 pass, attempts, lastRet>>

\* NotesService.deleteNote / updateNote as the monitor sees them: the stored
\* note disappears, or gains or loses its location.
DeleteNote(id) ==
  /\ noteState[id] \in {"loc", "noloc"}
  /\ noteState' = [noteState EXCEPT ![id] = "deleted"]
  /\ UNCHANGED <<monitorVars, locationVars, platformVars, devicePos, callVars,
                 pass, attempts, lastRet>>

UpdateNote(id) ==
  /\ noteState[id] \in {"loc", "noloc"}
  /\ noteState' = [noteState EXCEPT ![id] = IF @ = "loc" THEN "noloc" ELSE "loc"]
  /\ UNCHANGED <<monitorVars, locationVars, platformVars, devicePos, callVars,
                 pass, attempts, lastRet>>

\* ------------------------------------------------------------ note editor
\* LocationPicker.handleRadiusChange, ValidationUtils, NotesService.createNote
\* and updateNote

\* The monitor's own state, which the editor and the scheduler never touch.
geoVars == <<monitorVars, locationVars, platformVars, devicePos, callVars,
             pass, attempts, lastRet, seqHistory, locationAlert, promised>>

\* validateLocation's bounds on a radius (m).
RadiusMin == 10
RadiusMax == 1000

\* parseInt of a text that does not start with a number.
NaN == -1

\* What parseInt makes of the radius field (numeric keyboard, four characters).
RadiusInputs == {NaN, 0, 5, 10, 100, 1000, 1001, 9999}

\* Title lengths around validateNote's limits.
TitleLens == {0, 1, 100, 101}

\* LocationPicker.handleRadiusChange: parseInt(radius) || 100.
handleRadiusChange(input) == IF input = NaN \/ input = 0 THEN 100 ELSE input

\* ValidationUtils.validateNote on a note whose content, tags and photos are
\* within their limits: the errors, in order.
validateNote(titleLen) ==
  (IF titleLen = 0 THEN <<"Note title is required">> ELSE <<>>)
  \o (IF titleLen > 100
      THEN <<"Note title must be less than 100 characters">> ELSE <<>>)

\* ValidationUtils.validateLocation on a radius.
validateLocation(radius) ==
  IF radius < RadiusMin \/ radius > RadiusMax
  THEN <<"Geofence radius must be between 10 and 1000 meters">> ELSE <<>>

\* String.includes on a message held as its words.
Includes(message, words) ==
  \E i \in 1..(Len(message) - Len(words) + 1) :
     SubSeq(message, i, i + Len(words) - 1) = words

\* ErrorHandler.createError: an object literal, which is not an Error.
createError(code, message, userMessage) ==
  [isError |-> FALSE, code |-> code, message |-> message,
   userMessage |-> userMessage]

\* What AsyncStorage throws: an Error, with no code.
StorageFailure ==
  [isError |-> TRUE, code |-> "", message |-> <<"AsyncStorage", "failed">>,
   userMessage |-> ""]

\* What createNote and updateNote throw on validation errors.
ValidationError(errors) ==
  createError("VALIDATION_ERROR",
              <<"Note", "validation", "failed:">> \o errors, errors[1])

\* The catch of createNote: what it throws on for what it caught.
createNoteCatch(error) ==
  IF error.isError /\ Includes(error.message, <<"validation">>)
  THEN error
  ELSE createError("STORAGE_ERROR", <<"Failed", "to", "create", "note">>,
                   "Unable to save note. Please try again.")

\* The catch of updateNote.
updateNoteCatch(error) ==
  IF /\ error.isError
     /\ \/ Includes(error.message, <<"validation">>)
        \/ Includes(error.message, <<"not", "found">>)
  THEN error
  ELSE createError("STORAGE_ERROR", <<"Failed", "to", "update", "note">>,
                   "Unable to update note. Please try again.")

\* The call rejected with error.
Thrown(op, titleLen, error) ==
  [op |-> op, titleLen |-> titleLen, ret |-> "thrown", code |-> error.code,
   userMessage |-> error.userMessage]

\* The call resolved with the note.
Saved(op, titleLen) ==
  [op |-> op, titleLen |-> titleLen, ret |-> "saved", code |-> "",
   userMessage |-> ""]

\* What createNote and updateNote write for a note that passed validateNote.
SaveNote(id, hasLocation, radius) ==
  /\ noteState' = [noteState EXCEPT ![id] =
                     IF hasLocation THEN "loc" ELSE "noloc"]
  /\ noteRadius' = [noteRadius EXCEPT ![id] =
                      IF hasLocation THEN radius ELSE NoRadius]

\* NotesService.createNote with the location the picker handed over: the
\* note is validated by validateNote only, and stored under a fresh id,
\* which is put on the id list; or AsyncStorage throws at the first write
\* (~storageOk).  Whatever is thrown inside goes through the catch.
createNote(id, titleLen, hasLocation, input, storageOk) ==
  /\ noteState[id] = "deleted"
  /\ LET errors == validateNote(titleLen)
     IN IF errors # <<>>
        THEN /\ noteRet' = Thrown("createNote", titleLen,
                                  createNoteCatch(ValidationError(errors)))
             /\ UNCHANGED <<noteState, noteRadius, items, idList>>
        ELSE IF storageOk
        THEN /\ SaveNote(id, hasLocation, handleRadiusChange(input))
             /\ items' = items \cup {id}
             /\ idList' = idList \cup {id}
             /\ noteRet' = Saved("createNote", titleLen)
        ELSE /\ noteRet' = Thrown("createNote", titleLen,
                                  createNoteCatch(StorageFailure))
             /\ UNCHANGED <<noteState, noteRadius, items, idList>>
  /\ UNCHANGED <<geoVars, now, isInitialized, sched, triggers, fmtDate, fmtText,
                 ioVars, initPc, listeners, noteOps>>

\* NotesService.updateNote of a stored note: the merged note is validated
\* by validateNote only, and written over the stored one.
updateNote(id, titleLen, hasLocation, input, storageOk) ==
  /\ noteState[id] \in {"loc", "noloc"}
  /\ LET errors == validateNote(titleLen)
     IN IF errors # <<>>
        THEN /\ noteRet' = Thrown("updateNote", titleLen,
                                  updateNoteCatch(ValidationError(errors)))
             /\ UNCHANGED <<noteState, noteRadius>>
        ELSE IF storageOk
        THEN /\ SaveNote(id, hasLocation, handleRadiusChange(input))
             /\ noteRet' = Saved("updateNote", titleLen)
        ELSE /\ noteRet' = Thrown("updateNote", titleLen,
                                  updateNoteCatch(StorageFailure))
             /\ UNCHANGED <<noteState, noteRadius>>
  /\ UNCHANGED <<geoVars, now, isInitialized, sched, triggers, fmtDate, fmtText,
                 ioVars, initPc, listeners, storageVars>>

\* NotesService.createNote and deleteNote await by await

IdleOps == {o \in OpIds : noteOps[o].pc = "idle"}

\* The notes that a call in flight is creating or deleting.
BusyIds == {noteOps[o].id : o \in OpIds \ IdleOps}

\* getAllNotes over the storage: the ids on the list whose item exists; a
\* note that comes into view was created without a location.
Visible(its, ids) ==
  [id \in OwnerIds |->
     IF id \in its \cap ids
     THEN IF noteState[id] = "deleted" THEN "noloc" ELSE noteState[id]
     ELSE "deleted"]

opFrame == <<geoVars, now, noteRadius, noteRet, isInitialized, sched, triggers,
             fmtDate, fmtText, ioVars, initPc, listeners>>

\* createNote of valid data under the fresh id, or deleteNote(id) of a
\* listed note, is called and runs up to its first await: the item's
\* setItem or removeItem.  Calls in flight together are on distinct notes.
NoteOpCall(o, kind, id) ==
  /\ IdleOps # {} /\ o = Min(IdleOps)
  /\ id \notin BusyIds
  /\ IF kind = "create" THEN id \notin items \cup idList
                         ELSE id \in items \cap idList
  /\ noteOps' = [noteOps EXCEPT ![o] =
                   [pc |-> "item", kind |-> kind, id |-> id, read |-> {}]]
  /\ UNCHANGED <<opFrame, noteState, items, idList>>

\* The item is written or removed; the call goes on to getItem(NOTES_KEY).
NoteOpItem(o) ==
  /\ noteOps[o].pc = "item"
  /\ items' = IF noteOps[o].kind = "create" THEN items \cup {noteOps[o].id}
                                            ELSE items \ {noteOps[o].id}
  /\ noteOps' = [noteOps EXCEPT ![o].pc = "read"]
  /\ noteState' = Visible(items', idList)
  /\ UNCHANGED <<opFrame, idList>>

\* getItem(NOTES_KEY) answers with the list as it is now; the call adds or
\* filters out its id in that copy and hands the copy to setItem.
NoteOpRead(o) ==
  /\ noteOps[o].pc = "read"
  /\ noteOps' = [noteOps EXCEPT ![o].pc = "write", ![o].read = idList]
  /\ UNCHANGED <<opFrame, noteState, items, idList>>

\* setItem(NOTES_KEY) has stored the copy; the call returns.
NoteOpWrite(o) ==
  /\ noteOps[o].pc = "write"
  /\ idList' = IF noteOps[o].kind = "create"
               THEN noteOps[o].read \cup {noteOps[o].id}
               ELSE noteOps[o].read \ {noteOps[o].id}
  /\ noteOps' = [noteOps EXCEPT ![o] = IdleOp]
  /\ noteState' = Visible(items, idList')
  /\ UNCHANGED <<opFrame, items>>

\* ------------------------------------------------------------ reminders
\* NotificationService.initialize, scheduleNotification

\* Everything but the clock and the scheduler.
notSchedVars == <<geoVars, noteState, noteRadius, noteRet, fmtDate, fmtText,
                  ioVars, initPc, storageVars>>

\* Titles and scheduledDate values (ms) a caller passes.
Titles == {"", "Reminder"}
Dates == {0, 1, 2, 1000, 1001, 1002, 2001, 2999}

\* Time passes.
ClockAdvance ==
  /\ now < MaxNow
  /\ now' = now + 1
  /\ UNCHANGED <<notSchedVars, isInitialized, listeners, sched, triggers>>

\* scheduleNotification is called and awaits initialize().
scheduleNotification(title, date) ==
  /\ sched.pc = "idle"
  /\ Len(triggers) < MaxCalls
  /\ sched' = [pc |-> "init", title |-> title, date |-> date, accepted |-> 0,
               ret |-> "none", alerted |-> FALSE]
  /\ UNCHANGED <<notSchedVars, now, isInitialized, listeners, triggers>>

\* As SchedInitialized below, with a date equal to the clock let through.
SchedInitializedLax(granted, tick) ==
  /\ sched.pc = "init"
  /\ now + tick <= MaxNow
  /\ isInitialized' = (isInitialized \/ granted)
  /\ listeners' = IF ~isInitialized /\ granted THEN listeners + 1
                                               ELSE listeners
  /\ IF sched.title = "" \/ sched.date < now
     THEN /\ sched' = [sched EXCEPT !.pc = "idle", !.ret = "null",
                                     !.alerted = TRUE]
          /\ UNCHANGED <<now, triggers>>
     ELSE /\ now' = now + tick
          /\ triggers' = Append(triggers, (sched.date - now') \div 1000)
          /\ sched' = [sched EXCEPT !.pc = "service", !.accepted = now]
  /\ UNCHANGED notSchedVars

\* initialize() has resolved (its result is not looked at): when the service
\* was not initialized and permission is granted, the listeners have been
\* registered and isInitialized set.  An empty title
\* or a date that is not after new Date() throws into the catch: a dialog,
\* and null.  Otherwise the delay is computed from a second reading of the
\* clock, Date.now(), tick ms after the first, and the service is called.
SchedInitialized(granted, tick) ==
  /\ sched.pc = "init"
  /\ now + tick <= MaxNow
  /\ isInitialized' = (isInitialized \/ granted)
  /\ listeners' = IF ~isInitialized /\ granted THEN listeners + 1
                                               ELSE listeners
  /\ IF sched.title = "" \/ sched.date <= now
     THEN /\ sched' = [sched EXCEPT !.pc = "idle", !.ret = "null",
                                     !.alerted = TRUE]
          /\ UNCHANGED <<now, triggers>>
     ELSE /\ now' = now + tick
          /\ triggers' = Append(triggers, (sched.date - now') \div 1000)
          /\ sched' = [sched EXCEPT !.pc = "service", !.accepted = now]
  /\ UNCHANGED notSchedVars

\* scheduleNotificationAsync has answered: its id is returned, or it threw
\* into the catch: a dialog, and null.
SchedAnswered(ok) ==
  /\ sched.pc = "service"
  /\ sched' = [sched EXCEPT !.pc = "idle",
                            !.ret = IF ok THEN "id" \o ToString(Len(triggers))
                                          ELSE "null",
                            !.alerted = ~ok]
  /\ UNCHANGED <<notSchedVars, now, isInitialized, listeners, triggers>>

\* NotificationService.initialize on its own, as its three callers reach it

Callers == {"scheduleNotification", "scheduleLocationNotification",
            "showTestNotification"}

IdleInits == {i \in InitIds : initPc[i].pc = "idle"}

\* initialize() is called: it returns true at once when isInitialized is
\* set, and awaits requestPermission() otherwise.
InitializeCall(i, caller) ==
  /\ IdleInits # {} /\ i = Min(IdleInits)
  /\ initPc' = [initPc EXCEPT ![i] =
                  IF isInitialized
                  THEN [pc |-> "idle", caller |-> caller, ret |-> "true"]
                  ELSE [pc |-> "perm", caller |-> caller, ret |-> "none"]]
  /\ UNCHANGED <<geoVars, noteState, now, noteRadius, noteRet, isInitialized,
                 listeners, sched, triggers, fmtDate, fmtText, ioVars,
                 storageVars>>

\* requestPermission() has answered (a throw inside it reads as false): when
\* granted, setupNotificationListeners registers the listeners and
\* isInitialized is set; initialize() returns the answer.
InitializePermission(i, granted) ==
  /\ initPc[i].pc = "perm"
  /\ IF granted
     THEN listeners' = listeners + 1 /\ isInitialized' = TRUE
     ELSE UNCHANGED <<listeners, isInitialized>>
  /\ initPc' = [initPc EXCEPT ![i] =
                  [pc |-> "idle", caller |-> initPc[i].caller,
                   ret |-> IF granted THEN "true" ELSE "false"]]
  /\ UNCHANGED <<geoVars, noteState, now, noteRadius, noteRet, sched, triggers,
                 fmtDate, fmtText, ioVars, storageVars>>

\* NotificationService.formatNotificationTime

\* Dates (ms) around the clock and around the minute, hour and day limits.
FormatDates ==
  {-300000, -60000, -1, 0, 1, 2, 30000, 59999, 60000, 60002, 119999, 120001,
   3540000, 3599999, 3600000, 3600002, 5400000, 7199999, 7200002,
   86399999, 86400000, 86400002, 172799999, 172800002}

\* "In <n> <word>", the word in the plural unless n is 1.
InText(n, word) ==
  "In " \o ToString(n) \o " " \o word \o (IF n # 1 THEN "s" ELSE "")

\* formatNotificationTime with the minutes rounded to the nearest.
formatNotificationTimeRounded(date, clock) ==
  LET diffInMinutes == (date - clock + 30000) \div 60000
      diffInHours == diffInMinutes \div 60
      diffInDays == diffInHours \div 24
  IN IF diffInMinutes < 0 THEN "Past due"
     ELSE IF diffInMinutes < 60 THEN InText(diffInMinutes, "minute")
     ELSE IF diffInHours < 24 THEN InText(diffInHours, "hour")
     ELSE InText(diffInDays, "day")

\* formatNotificationTime(date) called when the clock reads clock.
formatNotificationTime(date, clock) ==
  LET diffInMinutes == (date - clock) \div 60000
      diffInHours == diffInMinutes \div 60
      diffInDays == diffInHours \div 24
  IN IF diffInMinutes < 0 THEN "Past due"
     ELSE IF diffInMinutes < 60 THEN InText(diffInMinutes, "minute")
     ELSE IF diffInHours < 24 THEN InText(diffInHours, "hour")
     ELSE InText(diffInDays, "day")

\* A screen formats a reminder's date.
FormatTime(date) ==
  /\ fmtDate' = date
  /\ fmtText' = formatNotificationTime(date, now)
  /\ UNCHANGED <<geoVars, noteState, noteRadius, noteRet, now, isInitialized,
                 sched, triggers, ioVars, initPc, listeners, storageVars>>

\* LocationService.checkGeofences on its own

\* Positions (dm) on and around the edges of both radii.
CheckPositions == {-41, -40, 0, 99, 100, 101, 104, 105, 160, 161, 1000}

\* The lists of note locations handed in: every order, with and without
\* each note.
CheckTargets == {<<>>, <<"A">>, <<"B">>, <<"A", "B">>, <<"B", "A">>}

\* checkGeofences is called.
CheckGeofences(loc, targets) ==
  /\ chkArgs' = [loc |-> loc, targets |-> targets]
  /\ chkOut' = checkGeofences(loc, targets)
  /\ UNCHANGED <<geoVars, noteState, now, noteRadius, noteRet, isInitialized,
                 sched, triggers, fmtDate, fmtText, initPc, listeners,
                 storageVars>>

\* ------------------------------------------------------------ histories

\* A pass that evaluates its targets enters every id it finds in range that
\* the previous evaluating pass did not.
RecordEntries(p, readOk) ==
  LET targets == notesWithLocations(readOk)
      found == TriggeredIds(checkGeofences(pass[p].loc, targets))
  IN IF targets = <<>>
     THEN UNCHANGED <<entries, prevInside>>
     ELSE /\ entries' = [id \in OwnerIds |->
                           IF id \in found \ prevInside
                           THEN entries[id] + 1 ELSE entries[id]]
          /\ prevInside' = found

\* The notifications the service accepted.
RecordDelivered(p, ok) ==
  delivered' = IF ok THEN [delivered EXCEPT ![pass[p].trig[pass[p].idx].noteId] = @ + 1]
                     ELSE delivered

\* Ids that leave the targets while in DedupSet, until they are targets again.
RecordOrphaned ==
  orphaned' = {id \in orphaned \cup lastNotifiedNotes : noteState'[id] # "loc"}

\* requestLocationPermission raises a dialog when the foreground status
\* is not "granted" (ErrorHandler.handle) and when it is but the background
\* status is not (Alert.alert); a throw of the platform is only logged.
RecordPermissionAlert(granted, dialog) ==
  locationAlert' = IF ~dialog THEN locationAlert
                   ELSE IF granted THEN "Background Location"
                   ELSE "LOCATION_PERMISSION_DENIED"

\* getCurrentLocation's catch hands LOCATION_ERROR to ErrorHandler.handle,
\* which raises Alert.alert for recoverable and unrecoverable errors alike.
RecordFixAlert(ok) ==
  locationAlert' = IF ok THEN locationAlert ELSE "LOCATION_ERROR"

\* A pass as above, with the histories kept.
SeqPassStep(p) ==
  \/ \E granted, dialog \in BOOLEAN :
        /\ PollPermission(p, granted)
        /\ RecordPermissionAlert(granted, dialog)
        /\ lastPass' = IF granted THEN lastPass ELSE "nofix"
        /\ UNCHANGED <<delivered, entries, prevInside, orphaned, appVars>>
  \/ \E ok \in BOOLEAN :
        /\ PollFix(p, ok)
        /\ RecordFixAlert(ok)
        /\ lastPass' = IF ok THEN lastPass ELSE "nofix"
        /\ UNCHANGED <<delivered, entries, prevInside, orphaned, appVars>>
  \/ \E readOk \in BOOLEAN :
        /\ PassNotes(p, readOk)
        /\ RecordEntries(p, readOk)
        /\ lastPass' = IF notesWithLocations(readOk) = <<>>
                       THEN "empty" ELSE "evaluated"
        /\ UNCHANGED <<delivered, orphaned, appVars, locationAlert>>
  \/ /\ PassYield(p)
     /\ UNCHANGED restVars
  \/ \E ok \in BOOLEAN :
        /\ PassNotified(p, ok)
        /\ RecordDelivered(p, ok)
        /\ UNCHANGED <<entries, prevInside, lastPass, orphaned, appVars,
                       locationAlert>>

\* ------------------------------------------------------------ specifications

NoCall ==
  /\ \A c \in StartIds : startPc[c] = "idle"
  /\ \A d \in StopIds : stopPc[d] = "idle"

NoPass == \A p \in PassIds : pass[p].pc = "idle"

Quiet == NoCall /\ NoPass

\* Passes interleave at their awaits with one another and with start() and
\* stop(); a start() or stop() is called once the previous one has returned;
\* releasing the watch does not throw.
Next ==
  \/ \E c \in StartIds : NoCall /\ StartCall(c) /\ UNCHANGED restVars
  \/ \E c \in StartIds : StartStep(c) /\ UNCHANGED restVars
  \/ \E d \in StopIds : NoCall /\ StopCall(d, FALSE, FALSE) /\ UNCHANGED restVars
  \/ \E d \in StopIds : StopTeardown(d) /\ UNCHANGED restVars
  \/ \E w \in SubIds, p \in PassIds : PushUpdate(w, p) /\ UNCHANGED restVars
  \/ \E t \in TimerIds, p \in PassIds : TimerTick(t, p) /\ UNCHANGED restVars
  \/ \E p \in PassIds : PassStep(p) /\ UNCHANGED restVars
  \/ \E q \in Positions : Move(q) /\ UNCHANGED restVars

Spec == Init /\ [][Next]_vars

\* As Spec, and watchId.remove() may throw.
NextThrow ==
  \/ Next
  \/ \E d \in StopIds, removed \in BOOLEAN :
        NoCall /\ StopCall(d, TRUE, removed) /\ UNCHANGED restVars

SpecThrow == Init /\ [][NextThrow]_vars

\* start() and stop() calls overlap at their awaits; no pass runs.
NextLife ==
  \/ \E c \in StartIds : StartCall(c) /\ UNCHANGED restVars
  \/ \E c \in StartIds : StartStep(c) /\ UNCHANGED restVars
  \/ \E d \in StopIds, throws, removed \in BOOLEAN :
        StopCall(d, throws, removed) /\ UNCHANGED restVars
  \/ \E d \in StopIds : StopTeardown(d) /\ UNCHANGED restVars

SpecLife == Init /\ [][NextLife]_vars

\* start() is called at any time, also while a stop() or another start() is
\* in flight; stop() is called when no start() is in flight; no pass runs and
\* releasing the watch does not throw.  promised records that a start() has
\* returned true and that nothing has been called since.
NextRestart ==
  \/ \E c \in StartIds :
        /\ StartCall(c)
        /\ promised' = isActive
        /\ UNCHANGED <<seqHistory, editorVars, locationAlert>>
  \/ \E c \in StartIds :
        /\ StartStep(c)
        /\ promised' = IF startPc'[c] = "idle" /\ lastRet'.res
                       THEN TRUE ELSE promised
        /\ UNCHANGED <<seqHistory, editorVars, locationAlert>>
  \/ \E d \in StopIds :
        /\ IdleStarts = StartIds
        /\ StopCall(d, FALSE, FALSE)
        /\ promised' = FALSE
        /\ UNCHANGED <<seqHistory, editorVars, locationAlert>>
  \/ \E d \in StopIds :
        /\ StopTeardown(d)
        /\ UNCHANGED <<seqHistory, appVars, locationAlert>>

SpecRestart == Init /\ [][NextRestart]_vars

\* initialize() calls of the three callers overlap at their await.
NextInit ==
  \/ \E i \in InitIds, caller \in Callers : InitializeCall(i, caller)
  \/ \E i \in InitIds, granted \in BOOLEAN : InitializePermission(i, granted)

SpecInit == Init /\ [][NextInit]_vars

\* One thing at a time, and no stop(): each start() and each pass runs to its
\* end before the next call, update or tick; the note store does not change.
NextStarts ==
  \/ \E c \in StartIds : Quiet /\ StartCall(c) /\ UNCHANGED restVars
  \/ \E c \in StartIds : StartStep(c) /\ UNCHANGED restVars
  \/ \E w \in SubIds, p \in PassIds :
        /\ Quiet /\ PushUpdate(w, p) /\ locationAlert' = "none"
        /\ UNCHANGED <<seqHistory, appVars>>
  \/ \E t \in TimerIds, p \in PassIds :
        /\ Quiet /\ TimerTick(t, p) /\ locationAlert' = "none"
        /\ UNCHANGED <<seqHistory, appVars>>
  \/ \E p \in PassIds : SeqPassStep(p)
  \/ \E q \in Positions : Move(q) /\ UNCHANGED restVars

SpecStarts == Init /\ [][NextStarts]_vars

\* As SpecStarts, and between two passes notes are deleted or edited.
NextStore ==
  \/ NextStarts
  \/ \E id \in OwnerIds :
        /\ NoPass /\ DeleteNote(id) /\ RecordOrphaned
        /\ UNCHANGED <<delivered, entries, prevInside, lastPass, appVars,
                       locationAlert>>
  \/ \E id \in OwnerIds :
        /\ NoPass /\ UpdateNote(id) /\ RecordOrphaned
        /\ UNCHANGED <<delivered, entries, prevInside, lastPass, appVars,
                       locationAlert>>

SpecStore == Init /\ [][NextStore]_vars

\* The watch never delivers an update: the interval alone drives the passes,
\* which may overlap; start() and stop() as in Spec.
NextPoll ==
  \/ \E c \in StartIds : NoCall /\ StartCall(c) /\ UNCHANGED restVars
  \/ \E c \in StartIds : StartStep(c) /\ UNCHANGED restVars
  \/ \E d \in StopIds : NoCall /\ StopCall(d, FALSE, FALSE) /\ UNCHANGED restVars
  \/ \E d \in StopIds : StopTeardown(d) /\ UNCHANGED restVars
  \/ \E t \in TimerIds, p \in PassIds : TimerTick(t, p) /\ UNCHANGED restVars
  \/ \E p \in PassIds : PassStep(p) /\ UNCHANGED restVars
  \/ \E q \in Positions : Move(q) /\ UNCHANGED restVars

\* setInterval keeps firing; microtasks and platform answers arrive; the
\* permission request, the one-shot fix and the read of the note store each
\* succeed again and again, though any single one may fail.
FairPoll ==
  /\ WF_vars(\E t \in TimerIds, p \in PassIds :
               TimerTick(t, p) /\ UNCHANGED restVars)
  /\ WF_vars(\E c \in StartIds : StartStarted(c) /\ UNCHANGED restVars)
  /\ WF_vars(\E d \in StopIds : StopTeardown(d) /\ UNCHANGED restVars)
  /\ \A p \in PassIds :
        /\ SF_vars(PollPermission(p, TRUE) /\ UNCHANGED restVars)
        /\ SF_vars(PollFix(p, TRUE) /\ UNCHANGED restVars)
        /\ SF_vars(PassNotes(p, TRUE) /\ UNCHANGED restVars)
        /\ WF_vars(PassYield(p) /\ UNCHANGED restVars)
        /\ WF_vars(\E ok \in BOOLEAN : PassNotified(p, ok) /\ UNCHANGED restVars)

SpecPoll == Init /\ [][NextPoll]_vars /\ FairPoll

\* The note editor on an empty store: notes are created and edited.
InitNotes ==
  /\ isActive = FALSE /\ checkInterval = NoHandle /\ lastNotifiedNotes = {}
  /\ watchId = NoHandle /\ isMonitoring = FALSE
  /\ liveSubs = {} /\ liveTimers = {}
  /\ devicePos \in Positions
  /\ noteState = [id \in OwnerIds |-> "deleted"]
  /\ startPc = [c \in StartIds |-> "idle"]
  /\ stopPc = [d \in StopIds |-> "idle"]
  /\ pass = [p \in PassIds |-> IdlePass]
  /\ attempts = [id \in OwnerIds |-> 0]
  /\ delivered = [id \in OwnerIds |-> 0]
  /\ entries = [id \in OwnerIds |-> 0]
  /\ prevInside = {} /\ lastRet = NoRet /\ lastPass = "none" /\ orphaned = {}
  /\ InitApp

NextNotes ==
  \/ \E id \in OwnerIds, titleLen \in TitleLens, hasLocation \in BOOLEAN,
        input \in RadiusInputs, storageOk \in BOOLEAN :
        createNote(id, titleLen, hasLocation, input, storageOk)
  \/ \E id \in OwnerIds, titleLen \in TitleLens, hasLocation \in BOOLEAN,
        input \in RadiusInputs, storageOk \in BOOLEAN :
        updateNote(id, titleLen, hasLocation, input, storageOk)

SpecNotes == InitNotes /\ [][NextNotes]_vars

\* createNote and deleteNote calls on distinct notes overlap at their
\* awaits, from an empty store on; AsyncStorage does not fail.
NextOps ==
  \/ \E o \in OpIds, kind \in {"create", "delete"}, id \in OwnerIds :
        NoteOpCall(o, kind, id)
  \/ \E o \in OpIds : NoteOpItem(o)
  \/ \E o \in OpIds : NoteOpRead(o)
  \/ \E o \in OpIds : NoteOpWrite(o)

SpecOps == InitNotes /\ [][NextOps]_vars

\* Reminders are scheduled one call after another while time passes.
NextSched ==
  \/ ClockAdvance
  \/ \E title \in Titles, date \in Dates : scheduleNotification(title, date)
  \/ \E granted \in BOOLEAN, tick \in {0, 1} : SchedInitialized(granted, tick)
  \/ \E ok \in BOOLEAN : SchedAnswered(ok)

SpecSched == Init /\ [][NextSched]_vars

\* Dates are formatted while time passes.
NextFormat ==
  \/ ClockAdvance
  \/ \E date \in FormatDates : FormatTime(date)

SpecFormat == Init /\ [][NextFormat]_vars

\* The device arrives: it only ever moves to position 0, inside every
\* radius, so each target is entered at most once.  The monitor is started
\* and never stopped; passes interleave as in Spec.
NextArrive ==
  \/ \E c \in StartIds : NoCall /\ StartCall(c) /\ UNCHANGED restVars
  \/ \E c \in StartIds : StartStep(c) /\ UNCHANGED restVars
  \/ \E w \in SubIds, p \in PassIds : PushUpdate(w, p) /\ UNCHANGED restVars
  \/ \E t \in TimerIds, p \in PassIds : TimerTick(t, p) /\ UNCHANGED restVars
  \/ \E p \in PassIds : PassStep(p) /\ UNCHANGED restVars
  \/ Move(0) /\ UNCHANGED restVars

SpecArrive == Init /\ [][NextArrive]_vars

\* The device stays where it is and the monitor is started and never
\* stopped; the watch's updates and the interval's ticks start passes that
\* interleave at their awaits.
NextInside ==
  \/ \E c \in StartIds : NoCall /\ StartCall(c) /\ UNCHANGED restVars
  \/ \E c \in StartIds : StartStep(c) /\ UNCHANGED restVars
  \/ \E w \in SubIds, p \in PassIds : PushUpdate(w, p) /\ UNCHANGED restVars
  \/ \E t \in TimerIds, p \in PassIds : TimerTick(t, p) /\ UNCHANGED restVars
  \/ \E p \in PassIds : PassStep(p) /\ UNCHANGED restVars

SpecInside == Init /\ [][NextInside]_vars

\* checkGeofences is called with positions and lists of every kind.
NextCheck ==
  \E loc \in CheckPositions, targets \in CheckTargets :
    CheckGeofences(loc, targets)

SpecCheck == Init /\ [][NextCheck]_vars

\* ------------------------------------------------------------ claims

\* C1: when passes run one after another while the monitor is active, the
\* proximity notifications emitted for an id are as many as its entry events
\* (a pass finds it in range and the previous evaluating pass did not).
C1_EmittedEqualsEntries ==
  Quiet => \A id \in OwnerIds : attempts[id] = entries[id]

\* C1 witness: in, in or out, in again: two entries and two notifications
\* for A, and A is in range once more.
C1_Witness ==
  /\ Quiet /\ isActive
  /\ attempts["A"] = 2 /\ entries["A"] = 2
  /\ "A" \in lastNotifiedNotes

\* C2: every entry event hands exactly one notification to the notification
\* service, whatever the call to the service answers.
C2_ExactlyOneDelivered ==
  Quiet => \A id \in OwnerIds : delivered[id] = entries[id]

\* C3: start() calls made one after another with no stop(): after a
\* successful one exactly one watch and one interval are live and recorded,
\* every later start() returns true, and none is ever created twice.
C3_StartIdempotent ==
  /\ Cardinality(liveSubs) <= 1 /\ Cardinality(liveTimers) <= 1
  /\ (NoCall /\ isActive) =>
        /\ lastRet.op = "start" /\ lastRet.res
        /\ liveSubs = {watchId} /\ watchId # NoHandle
        /\ liveTimers = {checkInterval} /\ checkInterval # NoHandle

\* C3 witness: a start() has returned at the isActive test.
C3_Witness ==
  /\ NoCall /\ isActive /\ lastRet.early
  /\ Cardinality(liveSubs) = 1 /\ Cardinality(liveTimers) = 1

\* C4: however start() and stop() calls overlap, at most one interval is
\* live and it is the one held in checkInterval.
C4_OneRecordedTimer ==
  /\ Cardinality(liveTimers) <= 1
  /\ liveTimers \subseteq {checkInterval}

\* C5: a start() called while inactive that finds location services off, or
\* cannot get its watch, returns false and leaves the monitor inactive: no
\* interval and no watch created, DedupSet and both services' fields as
\* they were.
C5_FailedStartFrame ==
  [][\A c \in StartIds :
       (startPc[c] \in {"enabled", "perm", "watch"} /\ startPc'[c] = "idle")
       => /\ lastRet' = [op |-> "start", res |-> FALSE, early |-> FALSE]
          /\ ~isActive'
          /\ UNCHANGED <<isActive, checkInterval, lastNotifiedNotes, watchId,
                         isMonitoring, liveSubs, liveTimers>>]_vars

\* C5 witness: a start() has returned false and the monitor is inactive.
C5_Witness ==
  /\ NoCall /\ lastRet.op = "start" /\ ~lastRet.res
  /\ ~isActive /\ checkInterval = NoHandle

\* C6: when stop() returns the monitor is inactive, its interval cancelled,
\* no watch live and DedupSet empty, also when releasing the watch threw.
C6_StopEffective ==
  [][\A d \in StopIds :
       (stopPc[d] = "teardown" /\ stopPc'[d] = "idle")
       => /\ ~isActive' /\ checkInterval' = NoHandle /\ liveTimers' = {}
          /\ lastNotifiedNotes' = {}
          /\ liveSubs' = {}]_vars

\* C7: between the return of stop() and the next start() no pass adds an id
\* to DedupSet or emits a notification (here: even when the teardown left
\* neither a watch nor an interval behind).
C7_NoWriteAfterStop ==
  [][(NoCall /\ lastRet.op = "stop" /\ liveSubs = {} /\ liveTimers = {})
       => (lastNotifiedNotes' \subseteq lastNotifiedNotes /\ attempts' = attempts)]_vars

\* C8: when the start() that follows a stop() returns, DedupSet is empty.
C8_RestartEmpty ==
  [][(lastRet.op = "stop" /\ lastRet'.op = "start" /\ lastRet'.res)
       => lastNotifiedNotes' = {}]_vars

\* C9: a poll pass that gets no position (permission missing or the fix
\* failed) ends there: no notification, and DedupSet, isActive, the interval
\* and the watch are as they were.
C9_FailedPollFrame ==
  [][\A p \in PassIds :
       (pass[p].pc \in {"perm", "fix"} /\ pass'[p].pc = "idle")
       => UNCHANGED <<lastNotifiedNotes, attempts, delivered, isActive,
                      checkInterval, liveTimers, watchId, isMonitoring,
                      liveSubs>>]_vars

\* C9 witness: the last pass got no position while the monitor was active
\* with an id in DedupSet.
C9_Witness ==
  /\ NoPass /\ lastPass = "nofix"
  /\ isActive /\ lastNotifiedNotes # {}

\* C10 as claimed: a pass that completes after a note was deleted or lost
\* its location leaves that id out of DedupSet, whatever else is stored.
C10_AnyPassClears ==
  [][\A p \in PassIds :
       (pass[p].pc \in {"notes", "yield", "notify"} /\ pass'[p].pc = "idle")
       => \A id \in OwnerIds : noteState[id] # "loc" => id \notin lastNotifiedNotes']_vars

\* C10 as amended: a pass begun after the deletion that reads a target list
\* which is not empty leaves that id out of DedupSet when it completes.
C10_EvaluatingPassClears ==
  [][\A p \in PassIds :
       (/\ pass[p].pc \in {"notes", "yield", "notify"} /\ pass'[p].pc = "idle"
        /\ lastPass' = "evaluated")
       => \A id \in OwnerIds : noteState[id] # "loc" => id \notin lastNotifiedNotes']_vars

\* C10 witness: an id left the targets while in DedupSet, a pass has since
\* evaluated the remaining targets, and the id is gone from DedupSet.
C10_Witness ==
  /\ NoPass /\ lastPass = "evaluated"
  /\ \E id \in orphaned : id \notin lastNotifiedNotes

\* The monitor is active and the device is within the radius of the stored
\* target id.
Stays(id) ==
  /\ isActive
  /\ noteState[id] = "loc"
  /\ calculateDistance(devicePos, Center(id)) <= Radius(id) * 10

\* C11: with no update ever delivered by the watch, while the monitor stays
\* active and the device stays within the radius of a target that is not in
\* DedupSet, the interval's passes get the target notified (its id enters
\* DedupSet, which only the emitting step does), until the run is cut.
C11_PollEventuallyEmits ==
  \A id \in OwnerIds :
    (Stays(id) /\ id \notin lastNotifiedNotes /\ WithinBudget)
      ~> (~Stays(id) \/ id \in lastNotifiedNotes \/ ~WithinBudget)

\* C11 witness: A was notified by a poll pass and the device is still there.
C11_Witness ==
  /\ Stays("A") /\ "A" \in lastNotifiedNotes /\ attempts["A"] = 1
  /\ liveSubs # {} /\ NoPass

\* C12: however subscribe and unsubscribe calls interleave, overlapping
\* subscribes included, at most one platform position watch is live.
C12_OneLiveWatch == Cardinality(liveSubs) <= 1

\* C13: no stored note carries a location whose radius is outside
\* [10, 1000] m: a create or update with such a radius stores nothing.
C13_StoredRadiusInRange ==
  \A id \in OwnerIds :
    noteState[id] = "loc" => validateLocation(noteRadius[id]) = <<>>

\* C14: a position fix that fails during a poll pass raises no dialog.
C14_FailedFixSilent ==
  [][\A p \in PassIds :
       (pass[p].pc = "fix" /\ pass'[p].pc = "idle")
       => locationAlert' = locationAlert]_vars

\* C15 as claimed: a call whose date is not after the clock returns null
\* without a scheduling call, and every call whose date is after the clock
\* makes exactly one scheduling call and returns the id the service gave.
C15_PastRejectedFutureScheduled ==
  [][/\ (sched.pc = "init" /\ sched'.pc # "init") =>
          IF sched.date <= now
          THEN sched'.pc = "idle" /\ sched'.ret = "null" /\ triggers' = triggers
          ELSE sched'.pc = "service" /\ Len(triggers') = Len(triggers) + 1
     /\ (sched.pc = "service" /\ sched'.pc = "idle" /\ ~sched'.alerted) =>
          sched'.ret = "id" \o ToString(Len(triggers)) /\ triggers' = triggers
    ]_vars

\* C15 as amended: the same, where an empty title is rejected like a date
\* that is not after the clock.
C15_InvalidRejectedValidScheduled ==
  [][/\ (sched.pc = "init" /\ sched'.pc # "init") =>
          IF sched.date <= now \/ sched.title = ""
          THEN sched'.pc = "idle" /\ sched'.ret = "null" /\ triggers' = triggers
          ELSE sched'.pc = "service" /\ Len(triggers') = Len(triggers) + 1
     /\ (sched.pc = "service" /\ sched'.pc = "idle" /\ ~sched'.alerted) =>
          sched'.ret = "id" \o ToString(Len(triggers)) /\ triggers' = triggers
    ]_vars

\* C15 witness: a call with a date in the past was turned down without a
\* scheduling call, after an earlier call had reached the service.
C15_Witness ==
  /\ sched.pc = "idle" /\ sched.ret = "null" /\ sched.title # ""
  /\ sched.date <= now /\ Len(triggers) = 1

\* C16: the delay handed to the service is floor((date - now) / 1000) for
\* the clock reading against which the date was accepted.
C16_DelayFromAcceptance ==
  [][(sched.pc = "init" /\ sched'.pc = "service") =>
       triggers'[Len(triggers')] = (sched.date - now) \div 1000]_vars

\* A date has just been formatted.
Formatted == fmtDate' # fmtDate \/ fmtText' # fmtText

\* C17: with m the whole minutes from the clock to the date: "Past due" for
\* a date before the clock, else minutes when m < 60, else hours floor(m/60)
\* when that is < 24, else days floor(hours/24); the unit is in the singular
\* exactly when the count shown is 1.
C17_Buckets ==
  [][Formatted =>
       LET m == (fmtDate' - now) \div 60000
           h == m \div 60
           d == h \div 24
           count == IF m < 60 THEN m ELSE IF h < 24 THEN h ELSE d
           word == IF m < 60 THEN "minute" ELSE IF h < 24 THEN "hour" ELSE "day"
       IN fmtText' = IF fmtDate' < now THEN "Past due"
                     ELSE "In " \o ToString(count) \o " "
                          \o (IF count = 1 THEN word ELSE word \o "s")]_vars

\* C17 witness: a date a day and a little ahead reads "In 1 day".
C17_Witness == fmtText = "In 1 day" /\ fmtDate - now > 86400000

\* C18: a date less than a minute ahead (30 s) is not shown as zero minutes,
\* a date 90 minutes ahead is shown in hours, a date 5 minutes back is
\* "Past due".
C18_Scenarios ==
  [][Formatted =>
       /\ (fmtDate' - now = 30000) => fmtText' # "In 0 minutes"
       /\ (fmtDate' - now = 5400000) => fmtText' \in {"In 1 hour", "In 2 hours"}
       /\ (fmtDate' - now = -300000) => fmtText' = "Past due"]_vars

\* The passes that have read their targets and not yet finished writing
\* DedupSet.
Evaluating == {p \in PassIds : pass[p].pc \in {"yield", "notify"}}

\* C19: no two passes are ever between their read of the targets and their
\* last write to DedupSet at once.
C19_OnePassAtATime == Cardinality(Evaluating) <= 1

\* C20: when the device only arrives (positions outside, then inside, then
\* inside), no pass with an older position undoes the entry a pass with a
\* newer one made: no target is notified twice.
C20_NoSecondNotification == \A id \in OwnerIds : attempts[id] <= 1

\* The device is within the radius of the stored target id.
Inside(id) ==
  /\ noteState[id] = "loc"
  /\ calculateDistance(devicePos, Center(id)) <= Radius(id) * 10

\* C21: while every position delivered is inside a target's radius and the
\* targets do not change, the target is notified at most once, however the
\* passes started by updates and by ticks interleave.
C21_NoDoubleFire ==
  \A id \in OwnerIds : Inside(id) => attempts[id] <= 1

\* C21 witness: two passes have both found A in range and are both
\* suspended inside their loops, and A was notified once.
C21_Witness ==
  /\ Inside("A") /\ attempts["A"] = 1
  /\ \A p \in PassIds :
       /\ pass[p].pc \in {"yield", "notify"}
       /\ "A" \in TriggeredIds(pass[p].trig)

\* C22: when a pass that overlapped no other and read a target list that is
\* not empty completes, DedupSet is exactly the stored targets whose radius
\* contains the pass's position (so: empty after a pass outside every
\* radius, not empty after the next pass inside one).
C22_DedupIsInRangeSet ==
  [][\A p \in PassIds :
       (/\ pass[p].pc \in {"notes", "yield", "notify"} /\ pass'[p].pc = "idle"
        /\ lastPass' = "evaluated")
       => lastNotifiedNotes' =
            {id \in OwnerIds :
               /\ noteState[id] = "loc"
               /\ calculateDistance(pass[p].loc, Center(id)) <= Radius(id) * 10}
    ]_vars

\* C22 witness: A was notified, then a pass at a position outside every
\* radius completed and DedupSet is empty.
C22_Witness ==
  /\ NoPass /\ lastPass = "evaluated" /\ prevInside = {}
  /\ lastNotifiedNotes = {} /\ attempts["A"] >= 1 /\ noteState["A"] = "loc"

\* C23: a pass whose target list is empty (no note has a location, or the
\* read of the note store failed) emits nothing and leaves DedupSet as it
\* was.
C23_EmptyListFrame ==
  [][\A p \in PassIds :
       (pass[p].pc = "notes" /\ pass'[p].pc = "idle" /\ lastPass' = "empty")
       => UNCHANGED <<lastNotifiedNotes, attempts, delivered>>]_vars

\* C23 witness: the last pass read an empty target list while both notes
\* were in DedupSet, and they still are.
C23_Witness ==
  /\ NoPass /\ lastPass = "empty" /\ isActive
  /\ lastNotifiedNotes = OwnerIds

\* The step in which pass p learns that its read of the note store failed:
\* the list came back empty though targets are stored.
ReadFailed(p) ==
  /\ pass[p].pc = "notes" /\ pass'[p].pc = "idle" /\ lastPass' = "empty"
  /\ notesWithLocations(TRUE) # <<>>

\* The step in which pass p learns that its notification was not accepted.
EmitFailed(p) ==
  /\ pass[p].pc = "notify" /\ pass'[p] # pass[p]
  /\ delivered' = delivered

\* The stored targets whose radius contains position loc.
InRange(loc) ==
  {id \in OwnerIds : /\ noteState[id] = "loc"
                     /\ calculateDistance(loc, Center(id)) <= Radius(id) * 10}

\* After a failed notification the pass goes on: to the next triggered
\* target, or past the last one to the removal of the ids not triggered.
GoesOn(p) ==
  IF pass[p].idx < Len(pass[p].trig)
  THEN pass'[p].idx = pass[p].idx + 1 /\ pass'[p].trig = pass[p].trig
  ELSE /\ pass'[p].pc = "idle"
       /\ lastNotifiedNotes' = lastNotifiedNotes \cap TriggeredIds(pass[p].trig)

\* The monitor's lifecycle flag, interval and watch stay as they are.
LifecycleFrame ==
  UNCHANGED <<isActive, checkInterval, liveTimers, watchId, isMonitoring,
              liveSubs>>

\* C24 as claimed: a failed read of the targets or a failed notification
\* leaves lifecycle, interval and watch alone, the remaining triggered
\* targets are still processed, and the ids no longer in range are still
\* removed from DedupSet.
C24_FailuresContainedRemovalRuns ==
  [][\A p \in PassIds :
       /\ EmitFailed(p) => LifecycleFrame /\ GoesOn(p)
       /\ ReadFailed(p) =>
            LifecycleFrame /\ lastNotifiedNotes' \subseteq InRange(pass[p].loc)
    ]_vars

\* C24 as amended: the same for a failed notification; a failed read ends
\* the pass with DedupSet as it was, nothing removed.
C24_FailuresContained ==
  [][\A p \in PassIds :
       /\ EmitFailed(p) => LifecycleFrame /\ GoesOn(p)
       /\ ReadFailed(p) =>
            LifecycleFrame /\ UNCHANGED <<lastNotifiedNotes, attempts>>
    ]_vars

\* C24 witness: the notification for A was not accepted and the pass went
\* on to notify B; both are in DedupSet.
C24_Witness ==
  /\ NoPass /\ isActive /\ lastPass = "evaluated"
  /\ attempts["A"] = 1 /\ delivered["A"] = 0
  /\ attempts["B"] = 1 /\ delivered["B"] = 1
  /\ lastNotifiedNotes = OwnerIds

\* C25: the result lists exactly the targets whose distance from the
\* position is at most their radius (compared unrounded, the edge included),
\* in the order given, each with its distance rounded to the nearest metre.
C25_TriggeredExact ==
  LET loc == chkArgs.loc
      within == SelectSeq(chkArgs.targets,
                  LAMBDA id : calculateDistance(loc, Center(id)) <= Radius(id) * 10)
  IN /\ Len(chkOut) = Len(within)
     /\ \A i \in 1..Len(within) :
          LET d == calculateDistance(loc, Center(within[i]))
          IN /\ chkOut[i].noteId = within[i]
             /\ 10 * chkOut[i].distance <= d + 5
             /\ 10 * chkOut[i].distance > d - 5

\* C25 witness: at exactly 10 m from A, listed second, both trigger in the
\* order given and A's distance is 10.
C25_Witness ==
  /\ chkArgs = [loc |-> 100, targets |-> <<"B", "A">>]
  /\ Len(chkOut) = 2 /\ chkOut[1].noteId = "B"
  /\ chkOut[2] = [noteId |-> "A", distance |-> 10]

\* C26: once a start() has returned true and every call made before that
\* return has settled, the monitor is Active: the flag is set, the interval
\* is live and the watch is live; a stop() that had begun before the start()
\* was called included.
C26_TrueMeansActive ==
  (promised /\ NoCall)
    => /\ isActive
       /\ checkInterval \in liveTimers
       /\ watchId \in liveSubs

\* C27: every delay handed to scheduleNotificationAsync is at least one
\* second, whatever accepted date it was computed from.
C27_DelayAtLeastOneSecond ==
  \A i \in 1..Len(triggers) : triggers[i] >= 1

\* C28: the notification listeners are registered at most once, however
\* many initialize() calls are made and however they overlap.
C28_ListenersOnce == listeners <= 1

\* C29: a createNote or updateNote whose data fails validateNote is rejected
\* with the code VALIDATION_ERROR and the first validation message as its
\* userMessage.
C29_ValidationErrorSurfaces ==
  (noteRet.op # "none" /\ validateNote(noteRet.titleLen) # <<>>)
    => /\ noteRet.ret = "thrown"
       /\ noteRet.code = "VALIDATION_ERROR"
       /\ noteRet.userMessage = validateNote(noteRet.titleLen)[1]

\* C30: once every createNote and deleteNote call has returned, every note
\* that was created and not deleted is on the stored id list, and so is
\* among the notes getAllNotes returns.
C30_NoIdLost ==
  (IdleOps = OpIds)
    => \A id \in items : id \in idList /\ noteState[id] # "deleted"

====
